---------------------------- MODULE Spec2Model ----------------------------
(***************************************************************************)
(* A model of src/jsutils/suggestionList.js: the LexicalDistance engine    *)
(* (constructor and measure, with its three-row rolling buffer) and the    *)
(* suggestionList ranking routine built on it.                             *)
(*                                                                         *)
(* A string is a sequence of UTF-16 code units, 1-based here where the     *)
(* source is 0-based: the source's a[i - 1] is a[i] below.                 *)
(***************************************************************************)
EXTENDS Integers, Sequences, FiniteSets, TLC

(***************************************************************************)
(* Bounds of the model.                                                    *)
(***************************************************************************)
\* SpecMeasure: code units of the input plus those of the measured option.
MaxUnits == 5
\* Spec: code units of the input plus those of all options of one call.
MaxRankUnits == 4
\* SpecThreshold: code units of the input plus those of all options.
MaxThresholdUnits == 6
\* Spec, SpecThreshold: length of the options array of one call.
MaxOptions == 2

(***************************************************************************)
(* The code units the strings are made of:                                 *)
(*    73  I  LATIN CAPITAL LETTER I                                        *)
(*    97  a  LATIN SMALL LETTER A                                          *)
(*   105  i  LATIN SMALL LETTER I                                          *)
(*   304  I with dot above (U+0130), whose lowercase form is two units     *)
(*   775  COMBINING DOT ABOVE (U+0307)                                     *)
(***************************************************************************)
CodeUnits == {73, 97, 105, 304, 775}

\* The code units of Spec.
RankCodeUnits == {73, 105, 304, 775}

\* The code units of SpecThreshold.
ThresholdCodeUnits == {97, 105}

\* All strings over S of at most n code units.
StringsUpTo(S, n) == UNION {[1..k -> S] : k \in 0..n}

Max(x, y) == IF x >= y THEN x ELSE y

Min(x, y) == IF x <= y THEN x ELSE y

\* The element of a one-element set.  Loops below bind each intermediate
\* value through a one-element set, so that it is computed once.
TheOne(S) == CHOOSE x \in S : TRUE

(***************************************************************************)
(* String.prototype.toLowerCase: the Unicode default case conversion, per  *)
(* code unit.  U+0130 lowercases to U+0069 U+0307 (SpecialCasing.txt), so  *)
(* the lowercase form may be longer than the string.                       *)
(***************************************************************************)
LowerCaseOf(c) ==
  CASE c = 73  -> <<105>>
    [] c = 304 -> <<105, 775>>
    [] OTHER   -> <<c>>

RECURSIVE toLowerCase(_)
toLowerCase(s) ==
  IF s = <<>> THEN <<>> ELSE LowerCaseOf(Head(s)) \o toLowerCase(Tail(s))

(***************************************************************************)
(* The rolling buffer.  A row is a JavaScript array of numbers: reading    *)
(* past its end yields undefined (NaN in arithmetic), writing past its end *)
(* extends it.  buf.rows are the three rows, buf.written the cells <<i, j>>*)
(* of the conceptual matrix that the current measure call has stored and   *)
(* not yet overwritten, buf.stale whether the call has read a buffer cell  *)
(* that does not hold the matrix cell it was read for.                     *)
(***************************************************************************)
NaN == -1

Add(x, k) == IF x = NaN THEN NaN ELSE x + k

MathMin(x, y) == IF x = NaN \/ y = NaN THEN NaN ELSE Min(x, y)

\* new Array(n).fill(0)
ZeroArray(n) == [k \in 1..n |-> 0]

\* row[j] = v
ArraySet(row, j, v) ==
  [k \in 1..Max(Len(row), j + 1) |->
     IF k = j + 1 THEN v ELSE IF k <= Len(row) THEN row[k] ELSE NaN]

\* row[j]
ArrayGet(row, j) == IF j + 1 <= Len(row) THEN row[j + 1] ELSE NaN

\* The row of the buffer that holds row i of the matrix: rows[i % 3].
RowIndexTwoRows(i) == (i % 2) + 1

RowIndex(i) == (i % 3) + 1

\* rows[i % 3][j] = v
Write(buf, i, j, v) ==
  [rows    |-> [buf.rows EXCEPT ![RowIndex(i)] = ArraySet(@, j, v)],
   written |-> {c \in buf.written :
                   ~(RowIndex(c[1]) = RowIndex(i) /\ c[2] = j)} \cup {<<i, j>>},
   stale   |-> buf.stale]

\* rows[i % 3][j]
Read(buf, i, j) == ArrayGet(buf.rows[RowIndex(i)], j)

Fresh(buf, i, j) == <<i, j>> \in buf.written

(***************************************************************************)
(* LexicalDistance.measure, lines 75-104: the dynamic program.  a is the   *)
(* lowercased option, b the lowercased input.                              *)
(***************************************************************************)
\* A first row that starts at 1: rows[0][j] = j + 1.
RECURSIVE FirstRowLoopFromOne(_, _, _)
FirstRowLoopFromOne(buf, j, bLength) ==
  IF j > bLength THEN buf
  ELSE TheOne({FirstRowLoopFromOne(next, j + 1, bLength) :
                 next \in {Write(buf, 0, j, j + 1)}})

\* for (let j = 0; j <= bLength; j++) rows[0][j] = j;
RECURSIVE FirstRowLoop(_, _, _)
FirstRowLoop(buf, j, bLength) ==
  IF j > bLength THEN buf
  ELSE TheOne({FirstRowLoop(next, j + 1, bLength) :
                 next \in {Write(buf, 0, j, j)}})

\* The inner loop's body with a transposition test that looks at one pair of
\* characters only: a[i - 1] === b[j - 2].
CellStepHalfTransposition(buf, a, b, i, j) ==
  LET cost == IF a[i] = b[j] THEN 0 ELSE 1
      transposition == i > 1 /\ j > 1 /\ a[i] = b[j - 1]
      minOfThree ==
        MathMin(MathMin(Add(Read(buf, i - 1, j), 1),
                        Add(Read(buf, i, j - 1), 1)),
                Add(Read(buf, i - 1, j - 1), cost))
      currentCell ==
        IF transposition
          THEN MathMin(minOfThree, Add(Read(buf, i - 2, j - 2), 1))
          ELSE minOfThree
  IN  Write(buf, i, j, currentCell)

\* The body of the inner loop: the buffer after currentRow[j] = currentCell.
CellStep(buf, a, b, i, j) ==
  LET cost == IF a[i] = b[j] THEN 0 ELSE 1
      transposition == i > 1 /\ j > 1 /\ a[i] = b[j - 1] /\ a[i - 1] = b[j]
      minOfThree ==
        MathMin(MathMin(Add(Read(buf, i - 1, j), 1),        \* delete
                        Add(Read(buf, i, j - 1), 1)),       \* insert
                Add(Read(buf, i - 1, j - 1), cost))         \* substitute
      currentCell ==
        IF transposition
          THEN MathMin(minOfThree, Add(Read(buf, i - 2, j - 2), 1))
          ELSE minOfThree
      allFresh ==
        /\ Fresh(buf, i - 1, j)
        /\ Fresh(buf, i, j - 1)
        /\ Fresh(buf, i - 1, j - 1)
        /\ transposition => Fresh(buf, i - 2, j - 2)
  IN  Write([buf EXCEPT !.stale = @ \/ ~allFresh], i, j, currentCell)

\* for (let j = 1; j <= bLength; j++) { ... }
RECURSIVE InnerLoop(_, _, _, _, _)
InnerLoop(buf, a, b, i, j) ==
  IF j > Len(b) THEN buf
  ELSE TheOne({InnerLoop(next, a, b, i, j + 1) :
                 next \in {CellStep(buf, a, b, i, j)}})

\* for (let i = 1; i <= aLength; i++) { currentRow[0] = i; ... }
RECURSIVE OuterLoop(_, _, _, _)
OuterLoop(buf, a, b, i) ==
  IF i > Len(a) THEN buf
  ELSE TheOne({OuterLoop(next, a, b, i + 1) :
                 next \in {InnerLoop(Write(buf, i, 0, i), a, b, i, 1)}})

\* Lines 70-104: the rows after the loops, the value returned, and whether
\* any cell was read that this call had not written.
DynamicProgram(rows, a, b) ==
  LET start == [rows |-> rows, written |-> {}, stale |-> FALSE]
  IN  TheOne({[distance |-> Read(buf, Len(a), Len(b)),
               rows     |-> buf.rows,
               stale    |-> buf.stale \/ ~Fresh(buf, Len(a), Len(b))] :
                 buf \in {OuterLoop(FirstRowLoop(start, 0, Len(b)), a, b, 1)}})

(***************************************************************************)
(* new LexicalDistance(input), lines 47-56.                                *)
(***************************************************************************)
LexicalDistance(input) ==
  [input          |-> input,
   inputLowerCase |-> toLowerCase(input),
   rows           |-> <<ZeroArray(Len(input) + 1),
                        ZeroArray(Len(input) + 1),
                        ZeroArray(Len(input) + 1)>>]

\* measure without the case rule of lines 65-68.
measureWithoutCaseRule(this, option) ==
  IF this.input = option
    THEN [distance |-> 0, rows |-> this.rows, stale |-> FALSE]
    ELSE DynamicProgram(this.rows, toLowerCase(option), this.inputLowerCase)

(***************************************************************************)
(* LexicalDistance.measure(option), lines 58-105, on the engine `this`:    *)
(* the value returned, the rows it leaves and the stale-read flag.         *)
(***************************************************************************)
measure(this, option) ==
  IF this.input = option
    THEN [distance |-> 0, rows |-> this.rows, stale |-> FALSE]
    ELSE LET optionLowerCase == toLowerCase(option)
         IN  IF this.inputLowerCase = optionLowerCase
               THEN [distance |-> 1, rows |-> this.rows, stale |-> FALSE]
               ELSE DynamicProgram(this.rows, optionLowerCase,
                                   this.inputLowerCase)

(***************************************************************************)
(* State.                                                                  *)
(*   input            the input string of the call                         *)
(*   options          the options iterated so far (a prefix of the array)  *)
(*   lexicalDistance  the engine: _input, _inputLowerCase, _rows           *)
(*   optionsByDistance  the map, as its entries in insertion order         *)
(*   pc               "loop" in the for-of loop, "done" after the return,  *)
(*                    "engine" for an engine used on its own               *)
(*   result           the array returned                                   *)
(*   option, distance the argument and the value of the last measure call  *)
(*   stale            whether that call read a cell it had not written     *)
(*   units            code units the bounds still allow                    *)
(***************************************************************************)
VARIABLES input, options, lexicalDistance, optionsByDistance, pc, result,
          option, distance, stale, units

vars == <<input, options, lexicalDistance, optionsByDistance, pc, result,
          option, distance, stale, units>>

(***************************************************************************)
(* SpecMeasure: measure as a function of the input and the option: an      *)
(* engine constructed on any input measures any one option.                *)
(***************************************************************************)
InitMeasure ==
  /\ input \in StringsUpTo(CodeUnits, MaxUnits)
  /\ options = <<>>
  /\ lexicalDistance = LexicalDistance(input)
  /\ optionsByDistance = <<>>
  /\ pc = "engine"
  /\ result = <<>>
  /\ option = <<>>
  /\ distance = 0
  /\ stale = FALSE
  /\ units = MaxUnits - Len(input)

Measure(o) ==
  /\ pc = "engine"
  /\ Len(o) <= units
  /\ \E m \in {measure(lexicalDistance, o)} :
         /\ lexicalDistance' = [lexicalDistance EXCEPT !.rows = m.rows]
         /\ distance' = m.distance
         /\ stale' = m.stale
  /\ option' = o
  /\ pc' = "measured"
  /\ units' = units - Len(o)
  /\ UNCHANGED <<input, options, optionsByDistance, result>>

NextMeasure == \E o \in StringsUpTo(CodeUnits, units) : Measure(o)

SpecMeasure == InitMeasure /\ [][NextMeasure]_vars

(***************************************************************************)
(* Numbers that may be fractions: input.length / 2 and option.length / 2   *)
(* are exact halves, compared with integer distances.                      *)
(***************************************************************************)
Fraction(n, d) == [num |-> n, den |-> d]

LessOrEqual(x, y) == x.num * y.den <= y.num * x.den

MathMax(x, y) == IF LessOrEqual(y, x) THEN x ELSE y

\* n / 2
Half(n) == Fraction(n, 2)

\* Line 17: Math.max(inputThreshold, option.length / 2, 1)
ThresholdOfInputOnly(inputThreshold, o) == MathMax(inputThreshold, Fraction(1, 1))

Threshold(inputThreshold, o) ==
  MathMax(MathMax(inputThreshold, Half(Len(o))), Fraction(1, 1))

(***************************************************************************)
(* optionsByDistance, an object without prototype: its entries in          *)
(* insertion order.  Assigning to a key it has keeps the key's place.      *)
(***************************************************************************)
HasKey(map, k) == \E n \in 1..Len(map) : map[n].key = k

\* optionsByDistance[option] = distance
AssignAlwaysAppends(map, k, v) == Append(map, [key |-> k, value |-> v])

Assign(map, k, v) ==
  IF HasKey(map, k)
    THEN [n \in 1..Len(map) |->
            IF map[n].key = k THEN [key |-> k, value |-> v] ELSE map[n]]
    ELSE Append(map, [key |-> k, value |-> v])

\* optionsByDistance[a]
ValueOf(map, k) == map[CHOOSE n \in 1..Len(map) : map[n].key = k].value

\* Object.keys(optionsByDistance)
ObjectKeys(map) == [n \in 1..Len(map) |-> map[n].key]

(***************************************************************************)
(* String.prototype.localeCompare (line 24): locale-sensitive comparison   *)
(* by the Unicode Collation Algorithm.  Strings are compared in canonical  *)
(* decomposition, first by the primary weights of their letters, then by   *)
(* the secondary weights (accents), then by the tertiary weights (case).   *)
(* Canonically equivalent strings, such as U+0130 and U+0049 U+0307,       *)
(* compare as equal: the result is 0 although the strings differ.          *)
(***************************************************************************)
\* Canonical decomposition of one code unit.
DecompositionOf(c) == IF c = 304 THEN <<73, 775>> ELSE <<c>>

RECURSIVE Decompose(_)
Decompose(s) ==
  IF s = <<>> THEN <<>> ELSE DecompositionOf(Head(s)) \o Decompose(Tail(s))

\* Primary weight: the letter, whatever its case; 0 for a combining mark.
PrimaryWeight(c) == CASE c = 97 -> 1 [] c \in {73, 105} -> 2 [] OTHER -> 0

\* Secondary weight: 1 (common) for a letter, 2 for the combining dot above.
SecondaryWeight(c) == IF c = 775 THEN 2 ELSE 1

\* Tertiary weight: 1 (common, lowercase), 2 for an uppercase letter.
TertiaryWeight(c) == IF c = 73 THEN 2 ELSE 1

RECURSIVE PrimaryKey(_)
PrimaryKey(s) ==
  IF s = <<>> THEN <<>>
  ELSE (IF PrimaryWeight(Head(s)) = 0 THEN <<>> ELSE <<PrimaryWeight(Head(s))>>)
         \o PrimaryKey(Tail(s))

SecondaryKey(s) == [n \in 1..Len(s) |-> SecondaryWeight(s[n])]

TertiaryKey(s) == [n \in 1..Len(s) |-> TertiaryWeight(s[n])]

\* Lexicographic comparison of two sequences of weights: -1, 0 or 1.
RECURSIVE CompareKeys(_, _)
CompareKeys(x, y) ==
  CASE x = <<>> /\ y = <<>> -> 0
    [] x = <<>> /\ y # <<>> -> -1
    [] x # <<>> /\ y = <<>> -> 1
    [] OTHER -> IF Head(x) < Head(y) THEN -1
                ELSE IF Head(x) > Head(y) THEN 1
                ELSE CompareKeys(Tail(x), Tail(y))

\* a.localeCompare(b)
localeCompare(a, b) ==
  LET x == Decompose(a)
      y == Decompose(b)
      primary   == CompareKeys(PrimaryKey(x), PrimaryKey(y))
      secondary == CompareKeys(SecondaryKey(x), SecondaryKey(y))
  IN  IF primary # 0 THEN primary
      ELSE IF secondary # 0 THEN secondary
      ELSE CompareKeys(TertiaryKey(x), TertiaryKey(y))

(***************************************************************************)
(* The comparator of lines 22-25 and Array.prototype.sort, which is        *)
(* stable: elements that compare as equal keep their order.                *)
(***************************************************************************)
CompareByDistanceOnly(map, a, b) == ValueOf(map, a) - ValueOf(map, b)

Compare(map, a, b) ==
  LET distanceDiff == ValueOf(map, a) - ValueOf(map, b)
  IN  IF distanceDiff # 0 THEN distanceDiff ELSE localeCompare(a, b)

\* x inserted into the sorted array, after the elements not greater than it.
RECURSIVE Insert(_, _, _)
Insert(sorted, x, map) ==
  IF sorted = <<>> THEN <<x>>
  ELSE IF Compare(map, Head(sorted), x) > 0 THEN <<x>> \o sorted
  ELSE <<Head(sorted)>> \o Insert(Tail(sorted), x, map)

RECURSIVE SortInto(_, _, _)
SortInto(sorted, keys, map) ==
  IF keys = <<>> THEN sorted
  ELSE TheOne({SortInto(next, Tail(keys), map) :
                 next \in {Insert(sorted, Head(keys), map)}})

\* The keys as Object.keys yields them, not sorted.
SortedKeysInInsertionOrder(map) == ObjectKeys(map)

\* Object.keys(optionsByDistance).sort(...)
SortedKeys(map) == SortInto(<<>>, ObjectKeys(map), map)

(***************************************************************************)
(* suggestionList, lines 7-26.                                             *)
(***************************************************************************)
\* One iteration of the for-of loop, lines 16-20, on the loop's state
\* st = [engine, map]: the state after it, with what measure returned.
LoopBody(st, o) ==
  TheOne({[engine   |-> [st.engine EXCEPT !.rows = m.rows],
           map      |-> IF LessOrEqual(Fraction(m.distance, 1),
                                       Threshold(Half(Len(st.engine.input)), o))
                          THEN Assign(st.map, o, m.distance)
                          ELSE st.map,
           distance |-> m.distance,
           stale    |-> m.stale] : m \in {measure(st.engine, o)}})

RECURSIVE Loop(_, _)
Loop(st, os) ==
  IF os = <<>> THEN st
  ELSE TheOne({Loop(next, Tail(os)) : next \in {LoopBody(st, Head(os))}})

\* suggestionList(input, options) as a function of its arguments.
suggestionList(in, os) ==
  SortedKeys(Loop([engine |-> LexicalDistance(in), map |-> <<>>], os).map)

\* The state after the declarations of lines 11-14, on an input of at most
\* n code units of S.
Called(S, n) ==
  /\ input \in StringsUpTo(S, n)
  /\ options = <<>>
  /\ lexicalDistance = LexicalDistance(input)
  /\ optionsByDistance = <<>>
  /\ pc = "loop"
  /\ result = <<>>
  /\ option = <<>>
  /\ distance = 0
  /\ stale = FALSE
  /\ units = n - Len(input)

\* for (const option of options) { ... }: the iteration on the next option.
LoopIteration(o) ==
  /\ pc = "loop"
  /\ Len(options) < MaxOptions
  /\ Len(o) <= units
  /\ \E st \in {LoopBody([engine |-> lexicalDistance,
                          map |-> optionsByDistance], o)} :
         /\ lexicalDistance' = st.engine
         /\ optionsByDistance' = st.map
         /\ distance' = st.distance
         /\ stale' = st.stale
  /\ options' = Append(options, o)
  /\ option' = o
  /\ units' = units - Len(o)
  /\ UNCHANGED <<input, pc, result>>

\* The options are exhausted: lines 22-25.
Return ==
  /\ pc = "loop"
  /\ result' = SortedKeys(optionsByDistance)
  /\ pc' = "done"
  /\ UNCHANGED <<input, options, lexicalDistance, optionsByDistance, option,
                 distance, stale, units>>

(***************************************************************************)
(* Spec: one call of suggestionList, on strings that include case variants *)
(* and canonically equivalent strings.                                     *)
(***************************************************************************)
Init == Called(RankCodeUnits, MaxRankUnits)

Next ==
  \/ \E o \in StringsUpTo(RankCodeUnits, units) : LoopIteration(o)
  \/ Return

Spec == Init /\ [][Next]_vars

(***************************************************************************)
(* SpecThreshold: one call of suggestionList, on strings long enough for   *)
(* the halved lengths to exceed 1.                                         *)
(***************************************************************************)
InitThreshold == Called(ThresholdCodeUnits, MaxThresholdUnits)

NextThreshold ==
  \/ \E o \in StringsUpTo(ThresholdCodeUnits, units) : LoopIteration(o)
  \/ Return

SpecThreshold == InitThreshold /\ [][NextThreshold]_vars

(***************************************************************************)
(* Properties of measure, checked under SpecMeasure.                       *)
(***************************************************************************)
\* The value measure(b) returns on a new engine constructed with input a.
Distance(a, b) == measure(LexicalDistance(a), b).distance

\* The code units lowercase forms are made of.
LowerCaseUnits == UNION {{LowerCaseOf(c)[n] : n \in 1..Len(LowerCaseOf(c))} :
                           c \in CodeUnits}

\* The strings one edit away from s: a character deleted, replaced or
\* inserted, or two adjacent characters swapped.
Edits(s) ==
  {SubSeq(s, 1, n - 1) \o SubSeq(s, n + 1, Len(s)) : n \in 1..Len(s)}
    \cup {[s EXCEPT ![n] = c] : n \in 1..Len(s), c \in LowerCaseUnits}
    \cup {SubSeq(s, 1, n) \o <<c>> \o SubSeq(s, n + 1, Len(s)) :
            n \in 0..Len(s), c \in LowerCaseUnits}
    \cup {[s EXCEPT ![n] = s[n + 1], ![n + 1] = s[n]] : n \in 1..(Len(s) - 1)}

\* Whether at most k edits transform s into t.  An edit changes the length
\* by at most one, so a string whose length differs from t's by more than
\* the edits left is never on the way.
RECURSIVE TransformsWithin(_, _, _)
TransformsWithin(s, t, k) ==
  /\ k >= 0
  /\ \/ s = t
     \/ \E u \in Edits(s) :
          /\ Len(u) - Len(t) <= k - 1
          /\ Len(t) - Len(u) <= k - 1
          /\ TransformsWithin(u, t, k - 1)

\* C1: whenever the lowercase forms of the option and of the input differ,
\* measure returns the minimum number of edits (insertion, deletion,
\* substitution, swap of two adjacent characters) that transform the
\* lowercased option into the lowercased input.
C1_MeasureIsMinimumEdits ==
  (pc = "measured" /\ toLowerCase(option) # toLowerCase(input)) =>
     /\ TransformsWithin(toLowerCase(option), toLowerCase(input), distance)
     /\ ~TransformsWithin(toLowerCase(option), toLowerCase(input), distance - 1)

\* C5: measure returns 0 for an option identical to the input, and exactly 1
\* for an option that differs from it only in letter case (equal lowercase
\* forms, unequal strings), however many characters differ.
C5_CaseChangeIsOneEdit ==
  pc = "measured" =>
     /\ option = input => distance = 0
     /\ (option # input /\ toLowerCase(option) = toLowerCase(input)) =>
          distance = 1

\* A case-only difference in two characters was measured.
C5_Witness ==
  /\ pc = "measured"
  /\ toLowerCase(option) = toLowerCase(input)
  /\ Len(option) = Len(input)
  /\ Cardinality({n \in 1..Len(input) : option[n] # input[n]}) >= 2
  /\ distance = 1

\* C7: the distance is symmetric: measure(option) on the engine of the input
\* equals measure(input) on an engine constructed with the option.
C7_Symmetric == pc = "measured" => distance = Distance(option, input)

\* Two strings of different lengths, at least two edits apart, were measured.
C7_Witness ==
  /\ pc = "measured"
  /\ toLowerCase(option) # toLowerCase(input)
  /\ Len(toLowerCase(option)) > Len(toLowerCase(input))
  /\ distance >= 2
  /\ distance < Len(toLowerCase(option))

Range(seq) == {seq[n] : n \in 1..Len(seq)}

\* The options in the order p, a permutation of their indices.
Permuted(os, p) == [n \in 1..Len(os) |-> os[p[n]]]

\* Whether measure(o) on the engine of the input runs the dynamic program.
RunsDynamicProgram(o) == toLowerCase(o) # toLowerCase(input)

\* Cell (i, j) of the full matrix for a and b, by the recurrence: row 0 is
\* j, column 0 is i, otherwise the least of delete, insert and substitute,
\* and of the transposition reading cell (i - 2, j - 2) where it applies.
RECURSIVE MatrixCell(_, _, _, _)
MatrixCell(a, b, i, j) ==
  IF i = 0 THEN j
  ELSE IF j = 0 THEN i
  ELSE LET cost == IF a[i] = b[j] THEN 0 ELSE 1
           three == Min(Min(MatrixCell(a, b, i - 1, j) + 1,
                            MatrixCell(a, b, i, j - 1) + 1),
                        MatrixCell(a, b, i - 1, j - 1) + cost)
       IN  IF i > 1 /\ j > 1 /\ a[i] = b[j - 1] /\ a[i - 1] = b[j]
             THEN Min(three, MatrixCell(a, b, i - 2, j - 2) + 1)
             ELSE three

\* C2: an option is in the result if and only if its distance d satisfies
\* 2 * d <= max(length(input), length(option), 2).
C2_InResultIffWithinThreshold ==
  pc = "done" =>
     \A o \in Range(options) :
        o \in Range(result) <=>
          2 * Distance(input, o) <= Max(Max(Len(input), Len(o)), 2)

\* An option two edits away is in the result because of its own length
\* only, and another option is not in the result.
C2_Witness ==
  /\ pc = "done"
  /\ \E o \in Range(result) :
        /\ Distance(input, o) = 2
        /\ Len(input) < 4
        /\ Len(o) >= 4
  /\ \E o \in Range(options) : o \notin Range(result)

\* C3 as stated: of two adjacent entries x, y of the result, x has the
\* smaller distance, or the same distance and x precedes y in the order of
\* localeCompare.
C3_SortedStrictly ==
  pc = "done" =>
     \A n \in 1..(Len(result) - 1) :
        \/ Distance(input, result[n]) < Distance(input, result[n + 1])
        \/ /\ Distance(input, result[n]) = Distance(input, result[n + 1])
           /\ localeCompare(result[n], result[n + 1]) < 0

\* C3, amended: of two adjacent entries x, y of the result, x has the
\* smaller distance, or the same distance and x does not follow y in the
\* order of localeCompare (it precedes y or compares as equal to it).
C3_Sorted ==
  pc = "done" =>
     \A n \in 1..(Len(result) - 1) :
        \/ Distance(input, result[n]) < Distance(input, result[n + 1])
        \/ /\ Distance(input, result[n]) = Distance(input, result[n + 1])
           /\ localeCompare(result[n], result[n + 1]) <= 0

\* Two options at the same distance were given in descending order and came
\* out in ascending order.
C3_Witness ==
  /\ pc = "done"
  /\ Len(options) = 2
  /\ result = <<options[2], options[1]>>
  /\ Distance(input, options[1]) = Distance(input, options[2])
  /\ localeCompare(options[2], options[1]) < 0

\* C4: every string of the result is one of the options, and no string
\* occurs in the result twice.
C4_SubsetWithoutDuplicates ==
  pc = "done" =>
     /\ Range(result) \subseteq Range(options)
     /\ \A m, n \in 1..Len(result) : result[m] = result[n] => m = n

\* The same string was given twice and is in the result.
C4_Witness ==
  /\ pc = "done"
  /\ Len(options) = 2
  /\ options[1] = options[2]
  /\ options[1] # input
  /\ Len(options[1]) >= 1
  /\ result = <<options[1]>>

\* C6 as stated: every permutation of the options yields the same result.
C6_PermutationInvariant ==
  pc = "done" =>
     \A p \in Permutations(1..Len(options)) :
        suggestionList(input, Permuted(options, p)) = result

\* C6, amended: every permutation of the options yields the same result,
\* provided no two distinct options compare as equal under localeCompare.
C6_PermutationInvariantUnlessEquivalent ==
  (/\ pc = "done"
   /\ \A x, y \in Range(options) : localeCompare(x, y) = 0 => x = y) =>
     \A p \in Permutations(1..Len(options)) :
        suggestionList(input, Permuted(options, p)) = result

\* Two distinct options at the same distance, given in descending order.
C6_Witness ==
  /\ pc = "done"
  /\ Len(options) = 2
  /\ Len(result) = 2
  /\ Distance(input, options[1]) = Distance(input, options[2])
  /\ localeCompare(options[1], options[2]) > 0

\* C9: a measure call that runs the dynamic program returns cell (m, n) of
\* the full matrix, and every cell of the rolling buffer it reads was
\* written earlier in the same call.
C9_BufferIsOverwrittenBeforeRead ==
  (Len(options) > 0 /\ RunsDynamicProgram(option)) =>
     /\ ~stale
     /\ distance = MatrixCell(toLowerCase(option), toLowerCase(input),
                              Len(toLowerCase(option)),
                              Len(toLowerCase(input)))

\* The second of two calls that ran the dynamic program, after a call on a
\* longer option that used every row of the buffer more than once.
C9_Witness ==
  /\ Len(options) = 2
  /\ RunsDynamicProgram(options[1])
  /\ RunsDynamicProgram(options[2])
  /\ Len(toLowerCase(options[1])) >= 3
  /\ Len(toLowerCase(options[2])) \in 1..2
  /\ Len(toLowerCase(input)) >= 1

\* C10: when the input is one of the options, the result starts with it:
\* it is at distance 0, every other option at distance 1 or more.
C10_ExactMatchFirst ==
  (pc = "done" /\ input \in Range(options)) =>
     /\ result # <<>>
     /\ result[1] = input
     /\ \A o \in Range(options) : o # input => Distance(input, o) >= 1

\* The input was given after an option that precedes it in the order of
\* localeCompare, and both are in the result.
C10_Witness ==
  /\ pc = "done"
  /\ Len(options) = 2
  /\ options[2] = input
  /\ localeCompare(options[1], input) < 0
  /\ result = <<input, options[1]>>

====
